---- MODULE Spec2Model ----
(***************************************************************************)
(* TransferWithEther: the file transfer protocol of                         *)
(* src/transfer_with_ether/network.py (send_file, receive_file,             *)
(* check_connection, _send_all, _recv_exact, the "!IQ" header).             *)
(*                                                                          *)
(* One send_file session, one receive_file session and a bounded number of  *)
(* check_connection probes run concurrently against one TCP port.  Every    *)
(* blocking socket call is one step; the code between two blocking calls    *)
(* belongs to the step of the call it follows.  Bytes are integers 0..255,  *)
(* file names are sequences of Unicode code points, paths are sequences of  *)
(* names.  Both status and progress callbacks are supplied; s_status,       *)
(* s_progress, r_status and r_progress record the calls made to them.       *)
(*                                                                          *)
(* The application of src/transfer_with_ether/app.py (FileTransferApp: the  *)
(* Start and Cancel buttons, the worker threads, _ui_queue and its timer)   *)
(* is modelled on its own at the end of the module.                         *)
(***************************************************************************)
EXTENDS Integers, Sequences, FiniteSets, TLC

(* ------------------------------ bounds --------------------------------- *)

\* longest source file, in bytes
MaxLen == 3
\* largest chunk_size argument of send_file
MaxChunk == 2
\* the receiver's per-read limit; stands for 64 * 1024 (network.py:201),
\* scaled to MaxLen so that the limit binds
RecvChunk == 2
\* bytes the connection can hold between sock.send and conn.recv; more than
\* RecvChunk, so that a recv can find more waiting than it asks for
BufCap == 3
\* check_connection calls made against the port
MaxProbes == 1

(* --------------------------- struct "!IQ" ------------------------------ *)

\* "I": unsigned int, 4 bytes
NameLenWidth == 4
\* "Q": unsigned long long, 8 bytes
FileSizeWidth == 8
\* _HEADER_STRUCT.size
HeaderSize == NameLenWidth + FileSizeWidth

StructError == <<"struct.error">>

RECURSIVE BigEndian(_, _)
\* the w low-order base-256 digits of v, most significant first ("!")
BigEndian(v, w) ==
    IF w = 0 THEN <<>> ELSE Append(BigEndian(v \div 256, w - 1), v % 256)

RECURSIVE FromBigEndian(_)
FromBigEndian(b) ==
    IF b = <<>> THEN 0
    ELSE FromBigEndian(SubSeq(b, 1, Len(b) - 1)) * 256 + b[Len(b)]

\* a mutant of Pack: "!II", the file size in four bytes
PackNarrowSize(n, s) == BigEndian(n, NameLenWidth) \o BigEndian(s, NameLenWidth)

\* _HEADER_STRUCT.pack(n, s)
Pack(n, s) == BigEndian(n, NameLenWidth) \o BigEndian(s, FileSizeWidth)

\* _HEADER_STRUCT.unpack(buf): struct.error unless buf holds exactly 12 bytes
Unpack(buf) ==
    IF Len(buf) # HeaderSize THEN StructError
    ELSE << FromBigEndian(SubSeq(buf, 1, NameLenWidth)),
            FromBigEndian(SubSeq(buf, NameLenWidth + 1, HeaderSize)) >>

(* ------------------------------ UTF-8 ---------------------------------- *)

\* U+FFFD, what errors="replace" puts for an undecodable byte
Replacement == 65533

RECURSIVE Utf8Encode(_)
\* str.encode("utf-8"), for code points below U+0800
Utf8Encode(s) ==
    IF s = <<>> THEN <<>>
    ELSE LET c == Head(s)
         IN  (IF c < 128 THEN <<c>> ELSE <<192 + (c \div 64), 128 + (c % 64)>>)
             \o Utf8Encode(Tail(s))

RECURSIVE Utf8Decode(_)
\* bytes.decode("utf-8", errors="replace"), for one- and two-byte sequences
Utf8Decode(b) ==
    IF b = <<>> THEN <<>>
    ELSE LET h == Head(b)
         IN  IF h < 128 THEN <<h>> \o Utf8Decode(Tail(b))
             ELSE IF h \in 194..223 /\ Len(b) >= 2 /\ b[2] \in 128..191
                  THEN <<(h - 192) * 64 + (b[2] - 128)>>
                       \o Utf8Decode(SubSeq(b, 3, Len(b)))
                  ELSE <<Replacement>> \o Utf8Decode(Tail(b))

(* ------------------------------ paths ---------------------------------- *)

\* the directories "src" and "dst"
SourceDir == << <<115, 114, 99>> >>
Destination == << <<100, 115, 116>> >>
\* base names of source files: "a" then U+00E9, three bytes in UTF-8
Names == { <<97, 233>> }

\* Path.name: the final component
BaseName(p) == p[Len(p)]

\* "/", ".", ".."
Slash == 47
Dot == <<46>>
DotDot == <<46, 46>>

RECURSIVE Parts(_, _)
\* the components of a path string: cut at "/", empty ones and "." dropped
\* (pathlib keeps ".."); cur is the component being read
Parts(str, cur) ==
    LET done == IF cur = <<>> \/ cur = Dot THEN <<>> ELSE <<cur>>
    IN  IF str = <<>> THEN done
        ELSE IF Head(str) = Slash THEN done \o Parts(Tail(str), <<>>)
        ELSE Parts(Tail(str), Append(cur, Head(str)))

\* destination / filename (PurePosixPath.__truediv__): an absolute filename
\* replaces the directory, a relative one is appended component by component
JoinPath(dir, name) ==
    IF name # <<>> /\ Head(name) = Slash THEN Parts(name, <<>>)
    ELSE dir \o Parts(name, <<>>)

\* the directories there are: the root, the source's and the destination's
Dirs == { <<>>, SourceDir, Destination }
\* what resolving a path gives when a component on the way is no directory
NoEntry == << <<>> >>
Parent(p) == IF p = <<>> THEN <<>> ELSE SubSeq(p, 1, Len(p) - 1)

RECURSIVE Walk(_, _)
\* the entry a path names, as the operating system resolves it from the
\* root: ".." steps to the parent, every component but the last must be a
\* directory
Walk(at, rest) ==
    IF rest = <<>> THEN at
    ELSE IF at \notin Dirs THEN NoEntry
    ELSE IF Head(rest) = DotDot THEN Walk(Parent(at), Tail(rest))
    ELSE Walk(Append(at, Head(rest)), Tail(rest))

\* the file a path names
FileOf(p) == Walk(<<>>, p)

\* line 199, target_path.open("wb"): what it raises
OpenError(p) ==
    IF FileOf(p) = NoEntry THEN "FileNotFoundError"
    ELSE IF FileOf(p) \in Dirs THEN "IsADirectoryError"
    ELSE "none"

\* the i-th byte of the source file of the model
PayloadByte(i) == (i * 85) % 256
Payload(len) == [i \in 1..len |-> PayloadByte(i)]

(* ------------------------------ values --------------------------------- *)

NoPath == <<>>
Status(text) == [text |-> text, path |-> NoPath]
StatusAt(text, p) == [text |-> text, path |-> p]
Last(q) == q[Len(q)]
Min(a, b) == IF a < b THEN a ELSE b

Connecting == Status("Connecting to receiver...")
Transferring == Status("Transferring file...")
SendCancelled == Status("Transfer cancelled by user.")
Completed == Status("Transfer completed successfully.")
Waiting == Status("Waiting for sender to connect...")
ListenCancelled == Status("Listening cancelled by user.")
Connected == Status("Connected to sender. Receiving file...")
RecvCancelled == Status("Transfer cancelled by user.")
Received(p) == StatusAt("File received: ", p)

SenderConn == 0
NoConn == 0 - 1

\* a mutant of Release: the handle left as it is
ReleaseLeaks(h) == h

\* the end of a with block: the socket or file is closed
Release(h) == IF h = "open" THEN "closed" ELSE h

\* the destination directory's files: a function from path to content
NoFiles == [p \in {} |-> <<>>]
WriteTo(files, p, data) == [files EXCEPT ![p] = @ \o data]

\* a mutant of OpenWb: mode "ab", what the file held is kept
OpenAb(files, p) == [q \in DOMAIN files \cup {p} |-> IF q \in DOMAIN files THEN files[q] ELSE <<>>]

\* open(..., "wb"): the file created, or cut to nothing
OpenWb(files, p) == [q \in DOMAIN files \cup {p} |-> IF q = p THEN <<>> ELSE files[q]]

\* a mutant of Unlink: the file left where it is
UnlinkNothing(files, p) == files

\* target_path.unlink(missing_ok=True)
Unlink(files, p) == [q \in DOMAIN files \ {p} |-> files[q]]
OldContent == <<1>>

(* ------------------------------ state ---------------------------------- *)

VARIABLES
    \* arguments of send_file and the source file they name
    file_path, src_exists, src_content, chunk_size,
    \* send_file: position, stop_event, locals, handles, callbacks, outcome
    s_pc, s_stop, s_file_size, s_filename_bytes, s_view, s_chunk_len, s_off,
    s_bytes_sent, s_sock, s_src, s_status, s_progress, s_exc,
    \* the port: connections established and not yet accepted, the bytes the
    \* sender's socket took, check_connection's results
    backlog, wire, probes,
    \* receive_file: position, stop_event, handles, locals, callbacks, outcome
    r_pc, r_stop, r_listen, r_conn, r_conn_id, r_pos, r_need, r_buf,
    r_name_len, r_file_size, r_target, r_dst, r_bytes_received,
    r_status, r_progress, r_ret, r_exc,
    \* the destination directory
    dest_exists, fs,
    \* history: where receive_file stood when its stop_event was set
    r_stop_at,
    \* history: the files as they were when receive_file was called
    fs_before,
    \* the header codec on its own: the pair packed, the buffer, what unpack gave
    codec,
    \* FileTransferApp: the widgets' variables and states, _worker_thread,
    \* _stop_event, _ui_queue; the Event objects and the worker threads there
    \* are; where the Tk event loop stands
    mode_var, status_var, progress_var, start_button, cancel_button,
    worker_thread, stop_event, ui_queue, events, workers, ui_pc

\* what no step of a session changes: the arguments, the files as they were
\* before the call, the codec's record and the application's state
app_vars == <<mode_var, status_var, progress_var, start_button, cancel_button,
              worker_thread, stop_event, ui_queue, events, workers, ui_pc>>
input_vars == <<file_path, src_exists, src_content, chunk_size, fs_before, codec, app_vars>>
s_vars == <<s_pc, s_file_size, s_filename_bytes, s_view, s_chunk_len, s_off,
            s_bytes_sent, s_sock, s_src, s_status, s_progress, s_exc>>
net_vars == <<backlog, wire, probes>>
r_vars == <<r_pc, r_listen, r_conn, r_conn_id, r_pos, r_need, r_buf,
            r_name_len, r_file_size, r_target, r_dst, r_bytes_received,
            r_status, r_progress, r_ret, r_exc>>
fs_vars == <<dest_exists, fs>>
vars == <<input_vars, s_vars, s_stop, net_vars, r_vars, r_stop, fs_vars, r_stop_at>>

\* app.py lines 17-37, __init__
None == 0
FirstStatus == <<"Select a file and click Start to send.">>
AppConstructed ==
    /\ mode_var = "sender"
    /\ status_var = FirstStatus
    /\ progress_var = 0
    /\ start_button = "normal" /\ cancel_button = "disabled"
    /\ worker_thread = None
    /\ events = <<FALSE>> /\ stop_event = 1
    /\ ui_queue = <<>>
    /\ workers = <<>>
    /\ ui_pc = "idle"

SourcePaths == { SourceDir \o <<n>> : n \in Names }

CodecIdle == [pc |-> "idle", n |-> 0, s |-> 0, buf |-> <<>>, out |-> <<>>]

Init ==
    /\ codec = CodecIdle
    /\ AppConstructed
    /\ file_path \in SourcePaths
    /\ src_exists \in BOOLEAN
    /\ src_content \in { Payload(len) : len \in (IF src_exists THEN 0..MaxLen ELSE {0}) }
    /\ chunk_size \in (IF src_exists THEN 1..MaxChunk ELSE {1})
    /\ s_pc = "s_init" /\ s_stop = FALSE
    /\ s_file_size = 0 /\ s_filename_bytes = <<>> /\ s_view = <<>>
    /\ s_chunk_len = 0 /\ s_off = 0 /\ s_bytes_sent = 0
    /\ s_sock = "none" /\ s_src = "none"
    /\ s_status = <<>> /\ s_progress = <<>> /\ s_exc = "none"
    /\ backlog = <<>> /\ wire = <<>> /\ probes = <<>>
    /\ r_pc = "r_init" /\ r_stop = FALSE /\ r_stop_at = "unset"
    /\ r_listen = "none" /\ r_conn = "none" /\ r_conn_id = NoConn
    /\ r_pos = 0 /\ r_need = 0 /\ r_buf = <<>>
    /\ r_name_len = 0 /\ r_file_size = 0 /\ r_target = NoPath
    /\ r_dst = "none" /\ r_bytes_received = 0
    /\ r_status = <<>> /\ r_progress = <<>>
    /\ r_ret = NoPath /\ r_exc = "none"
    /\ dest_exists \in BOOLEAN
    /\ fs \in (IF dest_exists
               THEN { NoFiles, JoinPath(Destination, BaseName(file_path)) :> OldContent }
               ELSE { NoFiles })
    /\ fs_before = fs

(* ---------------------------- connections ------------------------------ *)

InBacklog(id) == \E i \in 1..Len(backlog) : backlog[i] = id

\* the receiving end of the sender's connection exists: established and
\* waiting in the listening socket's queue, or accepted and not yet closed
PeerAlive ==
    \/ r_listen = "open" /\ InBacklog(SenderConn)
    \/ r_conn = "open" /\ r_conn_id = SenderConn

\* bytes of the sender's stream the receiving end has not consumed
InFlight == Len(wire) - r_pos

\* what a connection's peer has written, and whether the peer has closed:
\* check_connection writes nothing and closes at once
Stream(id) == IF id = SenderConn THEN wire ELSE <<>>
PeerClosed(id) == IF id = SenderConn THEN s_sock = "closed" ELSE TRUE

(* ------------------------------ send_file ------------------------------- *)

\* an exception leaves send_file through its with blocks
SRaise(exc) ==
    /\ s_pc' = "s_raised"
    /\ s_exc' = exc
    /\ s_src' = Release(s_src)
    /\ s_sock' = Release(s_sock)

\* a mutant of MissingFile: the check of line 108 left out
MissingFileUnchecked == FALSE

\* line 108: not file_path.exists()
MissingFile == ~src_exists

\* lines 104-115: the existence check, stat, the name, the first status
SStart ==
    /\ s_pc = "s_init"
    /\ IF MissingFile
       THEN /\ SRaise("FileNotFoundError")
            /\ UNCHANGED <<s_file_size, s_filename_bytes, s_status>>
       ELSE /\ s_file_size' = Len(src_content)
            /\ s_filename_bytes' = Utf8Encode(BaseName(file_path))
            /\ s_status' = Append(s_status, Connecting)
            /\ s_pc' = "s_connect"
            /\ UNCHANGED <<s_exc, s_src, s_sock>>
    /\ UNCHANGED <<input_vars, s_stop, s_view, s_chunk_len, s_off, s_bytes_sent,
                   s_progress, net_vars, r_vars, r_stop, r_stop_at, fs_vars>>

\* lines 116-117: create_connection to a listening port, then the header
SConnect ==
    /\ s_pc = "s_connect"
    /\ r_listen = "open"
    /\ s_sock' = "open"
    /\ backlog' = Append(backlog, SenderConn)
    /\ s_view' = Pack(Len(s_filename_bytes), s_file_size)
    /\ s_pc' = "s_header"
    /\ UNCHANGED <<input_vars, s_stop, s_file_size, s_filename_bytes, s_chunk_len,
                   s_off, s_bytes_sent, s_src, s_status, s_progress, s_exc,
                   wire, probes, r_vars, r_stop, r_stop_at, fs_vars>>

\* line 116: nothing listens on the port; create_connection raises
SConnectRefused ==
    /\ s_pc = "s_connect"
    /\ r_listen # "open"
    /\ SRaise("ConnectionRefusedError")
    /\ UNCHANGED <<input_vars, s_stop, s_file_size, s_filename_bytes, s_view,
                   s_chunk_len, s_off, s_bytes_sent, s_status, s_progress,
                   net_vars, r_vars, r_stop, r_stop_at, fs_vars>>

\* sock.send(view) takes between one byte and what the connection has room for
SendSizes == 1..Min(Len(s_view), IF PeerAlive THEN BufCap - InFlight ELSE BufCap)

\* a mutant of Rest: one sock.send taken to have sent the whole view
RestNone(k) == <<>>

\* lines 67-70, one turn of _send_all's loop: what is left of the view
Rest(k) == SubSeq(s_view, k + 1, Len(s_view))

\* line 118: _send_all(sock, header); line 119 begins when it is through
SSendHeader ==
    /\ s_pc = "s_header"
    /\ \E k \in SendSizes :
          /\ wire' = wire \o SubSeq(s_view, 1, k)
          /\ IF Rest(k) # <<>>
             THEN s_view' = Rest(k) /\ UNCHANGED s_pc
             ELSE s_view' = s_filename_bytes /\ s_pc' = "s_name"
    /\ UNCHANGED <<input_vars, s_stop, s_file_size, s_filename_bytes, s_chunk_len,
                   s_off, s_bytes_sent, s_sock, s_src, s_status, s_progress, s_exc,
                   backlog, probes, r_vars, r_stop, r_stop_at, fs_vars>>

\* line 119: _send_all(sock, filename_bytes); lines 121-125 when it is through
SSendName ==
    /\ s_pc = "s_name"
    /\ \E k \in SendSizes :
          /\ wire' = wire \o SubSeq(s_view, 1, k)
          /\ s_view' = Rest(k)
          /\ IF Rest(k) # <<>>
             THEN UNCHANGED <<s_pc, s_bytes_sent, s_status, s_src>>
             ELSE /\ s_bytes_sent' = 0
                  /\ s_status' = Append(s_status, Transferring)
                  /\ s_src' = "open"
                  /\ s_pc' = "s_loop"
    /\ UNCHANGED <<input_vars, s_stop, s_file_size, s_filename_bytes, s_chunk_len,
                   s_off, s_sock, s_progress, s_exc,
                   backlog, probes, r_vars, r_stop, r_stop_at, fs_vars>>

\* src.read(chunk_size) at the file's position
ReadChunk == SubSeq(src_content, s_off + 1, Min(s_off + chunk_size, Len(src_content)))

\* a mutant of SenderPoll: the loop reads to the end of the file regardless
SenderPollIgnored == FALSE

\* line 126: stop_event.is_set() in the loop condition
SenderPoll == s_stop

\* lines 126-129: the poll of stop_event, then the read; leaving the loop
\* (token set, or end of file) closes the source file
SLoop ==
    /\ s_pc = "s_loop"
    /\ IF SenderPoll \/ ReadChunk = <<>>
       THEN /\ s_src' = Release(s_src)
            /\ s_pc' = "s_after"
            /\ UNCHANGED <<s_view, s_chunk_len, s_off>>
       ELSE /\ s_view' = ReadChunk
            /\ s_chunk_len' = Len(ReadChunk)
            /\ s_off' = s_off + Len(ReadChunk)
            /\ s_pc' = "s_chunk"
            /\ UNCHANGED s_src
    /\ UNCHANGED <<input_vars, s_stop, s_file_size, s_filename_bytes, s_bytes_sent,
                   s_sock, s_status, s_progress, s_exc,
                   net_vars, r_vars, r_stop, r_stop_at, fs_vars>>

\* lines 130-133: _send_all(sock, chunk), then the count and the progress event
SSendChunk ==
    /\ s_pc = "s_chunk"
    /\ \E k \in SendSizes :
          /\ wire' = wire \o SubSeq(s_view, 1, k)
          /\ s_view' = Rest(k)
          /\ IF Rest(k) # <<>>
             THEN UNCHANGED <<s_pc, s_bytes_sent, s_progress>>
             ELSE /\ s_bytes_sent' = s_bytes_sent + s_chunk_len
                  /\ s_progress' = Append(s_progress, <<s_bytes_sent', s_file_size>>)
                  /\ s_pc' = "s_loop"
    /\ UNCHANGED <<input_vars, s_stop, s_file_size, s_filename_bytes, s_chunk_len,
                   s_off, s_sock, s_src, s_status, s_exc,
                   backlog, probes, r_vars, r_stop, r_stop_at, fs_vars>>

\* line 69: the receiving end is gone (closed, or never accepted and the
\* listening socket closed); sock.send raises BrokenPipeError or
\* ConnectionResetError, unless the reset has not arrived yet
SSendFails ==
    /\ s_pc \in {"s_header", "s_name", "s_chunk"}
    /\ ~PeerAlive
    /\ SRaise("ConnectionError")
    /\ UNCHANGED <<input_vars, s_stop, s_file_size, s_filename_bytes, s_view,
                   s_chunk_len, s_off, s_bytes_sent, s_status, s_progress,
                   net_vars, r_vars, r_stop, r_stop_at, fs_vars>>

\* a mutant of SAfter: the else of line 138 left out, the callbacks of
\* success made after the status of the cancellation as well
SAfterNoElse ==
    /\ s_pc = "s_after"
    /\ s_progress' = Append(s_progress, <<s_file_size, s_file_size>>)
    /\ s_status' = (IF s_stop THEN Append(s_status, SendCancelled) ELSE s_status)
                       \o <<Completed>>
    /\ s_sock' = Release(s_sock)
    /\ s_pc' = "s_done"
    /\ UNCHANGED <<input_vars, s_stop, s_file_size, s_filename_bytes, s_view,
                   s_chunk_len, s_off, s_bytes_sent, s_src, s_exc,
                   net_vars, r_vars, r_stop, r_stop_at, fs_vars>>

\* lines 135-142: the second read of stop_event, the last callbacks, and the
\* end of the with block of the socket
SAfter ==
    /\ s_pc = "s_after"
    /\ IF s_stop
       THEN /\ s_status' = Append(s_status, SendCancelled)
            /\ UNCHANGED s_progress
       ELSE /\ s_progress' = Append(s_progress, <<s_file_size, s_file_size>>)
            /\ s_status' = Append(s_status, Completed)
    /\ s_sock' = Release(s_sock)
    /\ s_pc' = "s_done"
    /\ UNCHANGED <<input_vars, s_stop, s_file_size, s_filename_bytes, s_view,
                   s_chunk_len, s_off, s_bytes_sent, s_src, s_exc,
                   net_vars, r_vars, r_stop, r_stop_at, fs_vars>>

\* the caller sets send_file's stop_event
SCancel ==
    /\ s_pc \notin {"s_done", "s_raised"}
    /\ ~s_stop
    /\ s_stop' = TRUE
    /\ UNCHANGED <<input_vars, s_vars, net_vars, r_vars, r_stop, r_stop_at, fs_vars>>

SenderDone == s_pc \in {"s_done", "s_raised"}

(* ---------------------------- receive_file ----------------------------- *)

\* an exception leaves receive_file through its with blocks
RRaise(exc) ==
    /\ r_pc' = "r_raised"
    /\ r_exc' = exc
    /\ r_dst' = Release(r_dst)
    /\ r_conn' = Release(r_conn)
    /\ r_listen' = Release(r_listen)

\* what the accepted connection holds for the next recv
Available == SubSeq(Stream(r_conn_id), r_pos + 1, Len(Stream(r_conn_id)))
AtEOF == Available = <<>> /\ PeerClosed(r_conn_id)

\* lines 160-167: the directory, then the first status
RStart ==
    /\ r_pc = "r_init"
    /\ dest_exists' = TRUE
    /\ r_status' = Append(r_status, Waiting)
    /\ r_pc' = "r_bind"
    /\ UNCHANGED <<input_vars, s_vars, s_stop, net_vars, r_stop, r_stop_at, fs,
                   r_listen, r_conn, r_conn_id, r_pos, r_need, r_buf, r_name_len,
                   r_file_size, r_target, r_dst, r_bytes_received, r_progress,
                   r_ret, r_exc>>

\* lines 169-173: socket, bind, listen, settimeout
RBind ==
    /\ r_pc = "r_bind"
    /\ r_listen' = "open"
    /\ r_pc' = "r_poll"
    /\ UNCHANGED <<input_vars, s_vars, s_stop, net_vars, r_stop, r_stop_at, fs_vars,
                   r_conn, r_conn_id, r_pos, r_need, r_buf, r_name_len,
                   r_file_size, r_target, r_dst, r_bytes_received, r_status,
                   r_progress, r_ret, r_exc>>

\* line 171: the port is taken; bind raises and the with block closes the socket
RBindFails ==
    /\ r_pc = "r_bind"
    /\ r_listen' = "closed"
    /\ r_pc' = "r_raised"
    /\ r_exc' = "OSError"
    /\ UNCHANGED <<input_vars, s_vars, s_stop, net_vars, r_stop, r_stop_at, fs_vars,
                   r_conn, r_conn_id, r_pos, r_need, r_buf, r_name_len,
                   r_file_size, r_target, r_dst, r_bytes_received, r_status,
                   r_progress, r_ret>>

\* a mutant of ListenPoll: the accept loop never looks at the token
ListenPollIgnored == FALSE

\* line 175: stop_event.is_set() in the accept loop's condition
ListenPoll == r_stop

\* lines 175, 181-184: the poll of stop_event before an accept attempt
RPoll ==
    /\ r_pc = "r_poll"
    /\ IF ListenPoll
       THEN /\ r_status' = Append(r_status, ListenCancelled)
            /\ r_ret' = NoPath
            /\ r_listen' = Release(r_listen)
            /\ r_pc' = "r_done"
       ELSE /\ r_pc' = "r_accept"
            /\ UNCHANGED <<r_status, r_ret, r_listen>>
    /\ UNCHANGED <<input_vars, s_vars, s_stop, net_vars, r_stop, r_stop_at, fs_vars,
                   r_conn, r_conn_id, r_pos, r_need, r_buf, r_name_len,
                   r_file_size, r_target, r_dst, r_bytes_received, r_progress,
                   r_exc>>

\* a mutant of AfterAccept: the loop goes round again instead of breaking
AfterAcceptNoBreak == "r_poll"

\* line 178: break
AfterAccept == "r_header"

\* a mutant of ListenerAfterAccept: the listening socket closed as soon as
\* accept has returned a connection
ListenerClosedAtAccept == Release(r_listen)

\* lines 169, 189: "with conn" lies inside the with block of server_sock, so
\* the listening socket stays as it is while the connection is served
ListenerAfterAccept == r_listen

\* lines 177-178, 186-190: accept returns a connection; the status, then
\* _recv_exact(conn, 12) begins
RAccept ==
    /\ r_pc = "r_accept"
    /\ backlog # <<>>
    /\ r_conn_id' = Head(backlog)
    /\ backlog' = Tail(backlog)
    /\ r_conn' = "open"
    /\ r_pos' = 0
    /\ r_status' = Append(r_status, Connected)
    /\ r_need' = HeaderSize
    /\ r_buf' = <<>>
    /\ r_pc' = AfterAccept
    /\ r_listen' = ListenerAfterAccept
    /\ UNCHANGED <<input_vars, s_vars, s_stop, wire, probes, r_stop, r_stop_at, fs_vars,
                   r_name_len, r_file_size, r_target, r_dst,
                   r_bytes_received, r_progress, r_ret, r_exc>>

\* lines 179-180: socket.timeout after one second without a connection
RAcceptTimeout ==
    /\ r_pc = "r_accept"
    /\ backlog = <<>>
    /\ r_pc' = "r_poll"
    /\ UNCHANGED <<input_vars, s_vars, s_stop, net_vars, r_stop, r_stop_at, fs_vars,
                   r_listen, r_conn, r_conn_id, r_pos, r_need, r_buf, r_name_len,
                   r_file_size, r_target, r_dst, r_bytes_received, r_status,
                   r_progress, r_ret, r_exc>>

\* lines 195-199: the name decoded, the target path, the file opened "wb";
\* open raises when the path names a directory or lies in none
OpenTarget(filename_bytes) ==
    /\ r_target' = JoinPath(Destination, Utf8Decode(filename_bytes))
    /\ r_bytes_received' = 0
    /\ IF OpenError(r_target') = "none"
       THEN /\ fs' = OpenWb(fs, FileOf(r_target'))
            /\ r_dst' = "open"
            /\ r_pc' = "r_loop"
            /\ UNCHANGED <<r_listen, r_conn, r_exc>>
       ELSE /\ RRaise(OpenError(r_target'))
            /\ UNCHANGED fs

\* lines 77-83 under line 190: one recv of _recv_exact(conn, 12); with the
\* header complete, line 191 and the start of _recv_exact(conn, name_len)
RRecvHeader ==
    /\ r_pc = "r_header"
    /\ \E k \in 1..Min(r_need, Len(Available)) :
          LET buf == r_buf \o SubSeq(Available, 1, k)
          IN  /\ r_pos' = r_pos + k
              /\ IF k < r_need
                 THEN /\ r_buf' = buf
                      /\ r_need' = r_need - k
                      /\ UNCHANGED <<r_pc, r_name_len, r_file_size, r_target,
                                     r_bytes_received, r_dst, fs,
                                     r_listen, r_conn, r_exc>>
                 ELSE /\ r_name_len' = Unpack(buf)[1]
                      /\ r_file_size' = Unpack(buf)[2]
                      /\ r_need' = r_name_len'
                      /\ r_buf' = <<>>
                      /\ IF r_name_len' = 0
                         THEN OpenTarget(<<>>)
                         ELSE /\ r_pc' = "r_name"
                              /\ UNCHANGED <<r_target, r_bytes_received, r_dst, fs,
                                             r_listen, r_conn, r_exc>>
    /\ UNCHANGED <<input_vars, s_vars, s_stop, net_vars, r_stop, r_stop_at, dest_exists,
                   r_conn_id, r_status, r_progress, r_ret>>

\* lines 77-83 under line 193: one recv of _recv_exact(conn, name_len); with
\* the name complete, lines 195-199
RRecvName ==
    /\ r_pc = "r_name"
    /\ \E k \in 1..Min(r_need, Len(Available)) :
          LET buf == r_buf \o SubSeq(Available, 1, k)
          IN  /\ r_pos' = r_pos + k
              /\ r_need' = r_need - k
              /\ IF k < r_need
                 THEN /\ r_buf' = buf
                      /\ UNCHANGED <<r_pc, r_target, r_bytes_received, r_dst, fs,
                                     r_listen, r_conn, r_exc>>
                 ELSE /\ r_buf' = <<>>
                      /\ OpenTarget(buf)
    /\ UNCHANGED <<input_vars, s_vars, s_stop, net_vars, r_stop, r_stop_at, dest_exists,
                   r_conn_id, r_name_len, r_file_size,
                   r_status, r_progress, r_ret>>

\* a mutant of RRecvExactEOF: "if not chunk: break", _recv_exact returns
\* what it has; unpack refuses a short header, a short name is used as it is
RRecvExactShort ==
    /\ r_pc \in {"r_header", "r_name"}
    /\ AtEOF
    /\ IF r_pc = "r_header"
       THEN /\ RRaise("struct.error")
            /\ UNCHANGED <<fs, r_need, r_buf, r_target, r_bytes_received>>
       ELSE /\ r_need' = 0 /\ r_buf' = <<>>
            /\ OpenTarget(r_buf)
    /\ UNCHANGED <<input_vars, s_vars, s_stop, net_vars, r_stop, r_stop_at, dest_exists,
                   r_conn_id, r_pos, r_name_len, r_file_size,
                   r_status, r_progress, r_ret>>

\* lines 78-80: recv returns b"" inside _recv_exact
RRecvExactEOF ==
    /\ r_pc \in {"r_header", "r_name"}
    /\ AtEOF
    /\ RRaise("ConnectionError")
    /\ UNCHANGED <<input_vars, s_vars, s_stop, net_vars, r_stop, r_stop_at, fs_vars,
                   r_conn_id, r_pos, r_need, r_buf, r_name_len, r_file_size,
                   r_target, r_bytes_received, r_status, r_progress, r_ret>>

\* a mutant of StreamPoll: the payload loop never looks at the token
StreamPollIgnored == FALSE

\* line 200: stop_event.is_set() in the payload loop's condition
StreamPoll == r_stop

\* line 200: the loop condition; leaving the loop closes the destination file
RLoop ==
    /\ r_pc = "r_loop"
    /\ IF r_bytes_received < r_file_size /\ ~StreamPoll
       THEN r_pc' = "r_recv" /\ UNCHANGED r_dst
       ELSE r_pc' = "r_after" /\ r_dst' = Release(r_dst)
    /\ UNCHANGED <<input_vars, s_vars, s_stop, net_vars, r_stop, r_stop_at, fs_vars,
                   r_listen, r_conn, r_conn_id, r_pos, r_need, r_buf, r_name_len,
                   r_file_size, r_target, r_bytes_received, r_status, r_progress,
                   r_ret, r_exc>>

\* a mutant of RecvLimit: conn.recv(64 * 1024), whatever is left to come
RecvLimitWholeChunk == RecvChunk

\* line 201: min(64 * 1024, file_size - bytes_received)
RecvLimit == Min(RecvChunk, r_file_size - r_bytes_received)

\* a mutant of Moved: the size of the chunk instead of the running count
MovedChunkOnly(received, k) == k

\* lines 205, 207: the count the progress callback is given
Moved(received, k) == received + k

\* lines 201-207: one recv of the payload loop, written to the file
RRecv ==
    /\ r_pc = "r_recv"
    /\ \E k \in 1..Min(RecvLimit, Len(Available)) :
          /\ r_pos' = r_pos + k
          /\ fs' = WriteTo(fs, FileOf(r_target), SubSeq(Available, 1, k))
          /\ r_bytes_received' = r_bytes_received + k
          /\ r_progress' = Append(r_progress, <<Moved(r_bytes_received, k), r_file_size>>)
    /\ r_pc' = "r_loop"
    /\ UNCHANGED <<input_vars, s_vars, s_stop, net_vars, r_stop, r_stop_at, dest_exists,
                   r_listen, r_conn, r_conn_id, r_need, r_buf, r_name_len,
                   r_file_size, r_target, r_dst, r_status, r_ret, r_exc>>

\* a mutant of RRecvEOF: "if not chunk: break", the loop is left as if the
\* file were complete
RRecvEOFBreaks ==
    /\ r_pc = "r_recv"
    /\ AtEOF
    /\ r_pc' = "r_after"
    /\ r_dst' = Release(r_dst)
    /\ UNCHANGED <<input_vars, s_vars, s_stop, net_vars, r_stop, r_stop_at, fs_vars,
                   r_listen, r_conn, r_exc,
                   r_conn_id, r_pos, r_need, r_buf, r_name_len, r_file_size,
                   r_target, r_bytes_received, r_status, r_progress, r_ret>>

\* lines 202-203: recv returns b"" in the payload loop
RRecvEOF ==
    /\ r_pc = "r_recv"
    /\ AtEOF
    /\ RRaise("ConnectionError")
    /\ UNCHANGED <<input_vars, s_vars, s_stop, net_vars, r_stop, r_stop_at, fs_vars,
                   r_conn_id, r_pos, r_need, r_buf, r_name_len, r_file_size,
                   r_target, r_bytes_received, r_status, r_progress, r_ret>>

\* lines 209-220: the second read of stop_event; unlink and None, or the last
\* callbacks and the path; then the ends of both with blocks
RAfter ==
    /\ r_pc = "r_after"
    /\ IF r_stop
       THEN /\ fs' = Unlink(fs, FileOf(r_target))
            /\ r_status' = Append(r_status, RecvCancelled)
            /\ r_ret' = NoPath
            /\ UNCHANGED r_progress
       ELSE /\ r_progress' = Append(r_progress, <<r_file_size, r_file_size>>)
            /\ r_status' = Append(r_status, Received(r_target))
            /\ r_ret' = r_target
            /\ UNCHANGED fs
    /\ r_conn' = Release(r_conn)
    /\ r_listen' = Release(r_listen)
    /\ r_pc' = "r_done"
    /\ UNCHANGED <<input_vars, s_vars, s_stop, net_vars, r_stop, r_stop_at, dest_exists,
                   r_conn_id, r_pos, r_need, r_buf, r_name_len, r_file_size,
                   r_target, r_dst, r_bytes_received, r_exc>>

\* where receive_file stands: no connection to the port yet, one waiting to
\* be accepted, the header or the name being read, the payload short of
\* file_size, or all of it written
Phase ==
    IF r_conn = "none" THEN (IF backlog = <<>> THEN "unconnected" ELSE "pending")
    ELSE IF r_dst = "none" THEN "header"
    ELSE IF r_bytes_received < r_file_size THEN "streaming"
    ELSE "complete"

\* the caller sets receive_file's stop_event
RCancel ==
    /\ r_pc \notin {"r_done", "r_raised"}
    /\ ~r_stop
    /\ r_stop' = TRUE
    /\ r_stop_at' = Phase
    /\ UNCHANGED <<input_vars, s_vars, s_stop, net_vars, r_vars, fs_vars>>

ReceiverDone == r_pc \in {"r_done", "r_raised"}

(* -------------------------- check_connection --------------------------- *)

\* a mutant of ProbeResult: no except clause, the OSError leaves the function
ProbeResultUncaught(connected) ==
    IF connected
    THEN [connected |-> TRUE, ret |-> <<TRUE>>, exc |-> "none", sock |-> Release("open")]
    ELSE [connected |-> FALSE, ret |-> <<>>, exc |-> "OSError", sock |-> "none"]

\* lines 26-30: what check_connection gives back.  connected: whether
\* create_connection returned a socket; ret: the first component of the
\* tuple returned, <<>> if nothing is returned; exc: what the call raises;
\* sock: the probe's socket when the call is over
ProbeResult(connected) ==
    IF connected
    THEN [connected |-> TRUE, ret |-> <<TRUE>>, exc |-> "none", sock |-> Release("open")]
    ELSE [connected |-> FALSE, ret |-> <<FALSE>>, exc |-> "none", sock |-> "none"]

\* lines 26-30: one check_connection call.  With a listener on the port the
\* connection is established, nothing is written and the with block closes
\* it; or the attempt runs into its timeout.  With no listener it is refused.
\* socket.timeout and ConnectionRefusedError are both OSError.
Probe ==
    /\ Len(probes) < MaxProbes
    /\ \/ /\ r_listen = "open"
          /\ backlog' = Append(backlog, Len(probes) + 1)
          /\ probes' = Append(probes, ProbeResult(TRUE))
       \/ /\ probes' = Append(probes, ProbeResult(FALSE))
          /\ UNCHANGED backlog
    /\ UNCHANGED <<input_vars, s_vars, s_stop, wire, r_vars, r_stop, r_stop_at, fs_vars>>

(* --------------------------- specification ----------------------------- *)

Next ==
    \/ SStart \/ SConnect \/ SConnectRefused
    \/ SSendHeader \/ SSendName \/ SLoop \/ SSendChunk \/ SSendFails \/ SAfter
    \/ SCancel
    \/ RStart \/ RBind \/ RBindFails \/ RPoll \/ RAccept \/ RAcceptTimeout
    \/ RRecvHeader \/ RRecvName \/ RRecvExactEOF
    \/ RLoop \/ RRecv \/ RRecvEOF \/ RAfter
    \/ RCancel
    \/ Probe

Spec == Init /\ [][Next]_vars

\* the steps of the two sessions; the operating system schedules each of
\* them as long as it can run
SenderNext ==
    \/ SStart \/ SConnect \/ SConnectRefused
    \/ SSendHeader \/ SSendName \/ SLoop \/ SSendChunk \/ SSendFails \/ SAfter

ReceiverNext ==
    \/ RStart \/ RBind \/ RBindFails \/ RPoll \/ RAccept \/ RAcceptTimeout
    \/ RRecvHeader \/ RRecvName \/ RRecvExactEOF
    \/ RLoop \/ RRecv \/ RRecvEOF \/ RAfter

FairSpec == Spec /\ WF_vars(SenderNext) /\ WF_vars(ReceiverNext)

\* receive_file's thread is scheduled; nothing is assumed of the peer, a
\* program on another host that may stall at any point
ReceiverFairSpec == Spec /\ WF_vars(ReceiverNext)

(* ------------------------------ claims --------------------------------- *)

Range(q) == { q[i] : i \in 1..Len(q) }
NonDecreasing(q) == \A i \in 1..Len(q) - 1 : q[i][1] <= q[i + 1][1]

\* where the receiver is expected to store the source file
ExpectedPath == Destination \o <<file_path[Len(file_path)]>>

\* the receiver serves the send_file session and neither stop_event is set
Undisturbed == r_conn_id = SenderConn /\ ~s_stop /\ ~r_stop

RoundTripResult ==
    Undisturbed =>
        /\ r_pc # "r_raised"
        /\ r_pc = "r_done" =>
              /\ r_ret = ExpectedPath
              /\ r_ret \in DOMAIN fs
              /\ fs[r_ret] = src_content

\* C1: when receive_file has accepted send_file's connection and neither
\* stop_event is ever set, receive_file raises nothing and returns; it returns
\* destination_dir/<base name of the source>, and the file there holds exactly
\* the bytes of the source, whatever the sizes of the partial sends and recvs.
C1_RoundTrip ==
    /\ []RoundTripResult
    /\ (r_conn_id = SenderConn) ~> (r_pc = "r_done" \/ s_stop \/ r_stop)

\* C1 witness: a source of MaxLen bytes stored whole, received in more than
\* one recv, after a send_file that needed more chunks than one
C1_Witness ==
    /\ Undisturbed
    /\ r_pc = "r_done"
    /\ Len(src_content) = MaxLen
    /\ fs[r_ret] = src_content
    /\ Len(r_progress) > 2
    /\ Len(s_progress) > 2

ListenCancelledOutcome ==
    /\ r_pc = "r_done" /\ r_ret = NoPath
    /\ Last(r_status) = ListenCancelled
    /\ r_conn = "none" /\ r_dst = "none"

CancelledOutcome ==
    /\ r_pc = "r_done" /\ r_ret = NoPath
    /\ Last(r_status) = RecvCancelled
    /\ r_target \notin DOMAIN fs

\* the poll of line 200 is about to find the token set, the payload short
ObservedShort == r_pc = "r_loop" /\ r_stop /\ r_bytes_received < r_file_size

\* receive_file failed on a closed connection and left the partial file
FailedShort ==
    /\ r_pc = "r_raised" /\ r_exc = "ConnectionError"
    /\ PeerClosed(r_conn_id)
    /\ r_target \in DOMAIN fs
    /\ Len(fs[r_target]) < r_file_size

\* C2, as claimed: the token set after the accept, with fewer than file_size
\* payload bytes received, makes receive_file end Cancelled with the partial
\* file gone, whatever the sender does.
C2_Original ==
    r_stop_at = "streaming" /\ ReceiverDone => CancelledOutcome

\* C2, amended: a token set in mid-transfer is acted on at the loop's next
\* poll, and from there receive_file always ends Cancelled with the file
\* deleted; a session in which the token was set in mid-transfer ends either
\* that way or, the sender having closed the connection under a pending read,
\* with ConnectionError and the partial file left in place.
C2_CancelMidTransfer ==
    /\ ObservedShort ~> CancelledOutcome
    /\ [][ObservedShort => r_pc' \in {"r_loop", "r_after"}]_vars
    /\ [](r_stop_at = "streaming" /\ ReceiverDone => CancelledOutcome \/ FailedShort)

\* C2 witness: cancelled in mid-transfer after a part of the payload was
\* written, and the file is gone
C2_Witness ==
    /\ r_stop_at = "streaming"
    /\ CancelledOutcome
    /\ r_bytes_received > 0 /\ r_bytes_received < r_file_size

\* C3, as claimed: the token set before any connection to the port exists
\* keeps receive_file from ever accepting a sender or opening a file, and
\* when it returns it does so with 'Listening cancelled by user.' and None.
C3_Original ==
    r_stop_at = "unconnected" =>
        /\ r_conn_id # SenderConn /\ r_dst = "none"
        /\ r_pc = "r_done" => ListenCancelledOutcome

\* C3, amended: a token found set by the poll that precedes an accept attempt
\* ends receive_file with 'Listening cancelled by user.' and None, no header
\* read and no file opened; that is the only way receive_file ends without
\* an accepted connection once it listens, and no file changes before an accept.
C3_CancelBeforeAccept ==
    /\ (r_pc = "r_poll" /\ r_stop) ~> ListenCancelledOutcome
    /\ [][r_pc = "r_poll" /\ r_stop => r_pc' \in {"r_poll", "r_done"}]_vars
    /\ [](r_pc = "r_done" /\ r_conn = "none" => r_stop /\ ListenCancelledOutcome)
    /\ [][r_conn = "none" => fs' = fs /\ r_dst' = "none"]_vars

\* C3 witness: the token set before anything was connected, and the session
\* over with the listening cancelled
C3_Witness == r_stop_at = "unconnected" /\ ListenCancelledOutcome

\* progress events made by send_file's loop, one for each chunk written
ChunksWritten == (s_bytes_sent + chunk_size - 1) \div chunk_size

\* the poll of line 126 is about to find the token set
SenderObserves == s_pc = "s_loop" /\ s_stop

SenderCancelledOutcome ==
    /\ s_pc = "s_done"
    /\ Last(s_status) = SendCancelled
    /\ Completed \notin Range(s_status)
    /\ Len(s_progress) = ChunksWritten

\* C4: send_file polls its token before each read of the source; from the
\* poll that finds it set on, nothing more is written to the socket, no
\* progress event is made (so no final one), the last status is 'Transfer
\* cancelled by user.' and never 'Transfer completed successfully.', and
\* send_file returns.
C4_SenderCancel ==
    /\ [][SenderObserves \/ (s_stop /\ s_pc \in {"s_after", "s_done"})
            => wire' = wire /\ s_progress' = s_progress /\ s_off' = s_off]_vars
    /\ [][SenderObserves => s_pc' \in {"s_loop", "s_after"}]_vars
    /\ [](s_stop /\ s_pc = "s_done" => SenderCancelledOutcome)
    /\ SenderObserves ~> SenderCancelledOutcome

\* C4 witness: cancelled with a part of the file sent and a part unread
C4_Witness ==
    /\ SenderCancelledOutcome
    /\ s_bytes_sent > 0 /\ s_bytes_sent < s_file_size

ProgressOK(q, total) ==
    /\ NonDecreasing(q)
    /\ \A i \in 1..Len(q) : q[i][1] <= total /\ q[i][2] = total

\* C5: in each session the bytes_moved values given to the progress callback
\* never decrease and never exceed total_bytes, and a session that succeeds
\* has made (total_bytes, total_bytes) its last progress event.
C5_Progress ==
    /\ ProgressOK(s_progress, Len(src_content))
    /\ ProgressOK(r_progress, r_file_size)
    /\ s_pc = "s_done" /\ Last(s_status) = Completed =>
          s_progress # <<>> /\ Last(s_progress) = <<Len(src_content), Len(src_content)>>
    /\ r_pc = "r_done" /\ r_ret # NoPath =>
          r_progress # <<>> /\ Last(r_progress) = <<r_file_size, r_file_size>>

\* C5 witness: a receiver that succeeded after recvs of two sizes, and a
\* sender that succeeded after two chunks
C5_Witness ==
    /\ r_pc = "r_done" /\ r_ret # NoPath
    /\ s_pc = "s_done" /\ Last(s_status) = Completed
    /\ Len(s_progress) > 2
    /\ \E i \in 2..Len(r_progress) - 1 :
          r_progress[i][1] - r_progress[i - 1][1] # r_progress[1][1]

\* C6: send_file on a path that does not exist raises FileNotFoundError and
\* does nothing else: no socket, no connection to the port, no byte written,
\* no status or progress callback.
C6_MissingSource ==
    /\ ~src_exists =>
          /\ s_pc \in {"s_init", "s_raised"}
          /\ s_pc = "s_raised" => s_exc = "FileNotFoundError"
          /\ s_sock = "none" /\ s_src = "none"
          /\ ~InBacklog(SenderConn) /\ r_conn_id # SenderConn
          /\ wire = <<>>
          /\ s_status = <<>> /\ s_progress = <<>>
    /\ s_exc = "FileNotFoundError" => ~src_exists

\* C6 witness: FileNotFoundError while a receiver was listening
C6_Witness ==
    /\ s_pc = "s_raised" /\ s_exc = "FileNotFoundError"
    /\ r_listen = "open"

(* --------------------------- the header codec -------------------------- *)

\* name lengths and file sizes that use one, two, three and four bytes
HeaderValues == {0, 1, 255, 256, 65535, 65536, 16777215, 16777216, 2147483647}

codec_rest == <<file_path, src_exists, src_content, chunk_size, fs_before, app_vars, s_vars, s_stop,
                net_vars, r_vars, r_stop, fs_vars, r_stop_at>>

CodecInit ==
    /\ AppConstructed
    /\ codec \in { [pc |-> "start", n |-> n, s |-> s, buf |-> <<>>, out |-> <<>>] :
                   n \in HeaderValues, s \in HeaderValues }
    /\ file_path = SourceDir \o <<CHOOSE n \in Names : TRUE>>
    /\ src_exists = FALSE /\ src_content = <<>> /\ chunk_size = 1
    /\ s_pc = "s_init" /\ s_stop = FALSE
    /\ s_file_size = 0 /\ s_filename_bytes = <<>> /\ s_view = <<>>
    /\ s_chunk_len = 0 /\ s_off = 0 /\ s_bytes_sent = 0
    /\ s_sock = "none" /\ s_src = "none"
    /\ s_status = <<>> /\ s_progress = <<>> /\ s_exc = "none"
    /\ backlog = <<>> /\ wire = <<>> /\ probes = <<>>
    /\ r_pc = "r_init" /\ r_stop = FALSE /\ r_stop_at = "unset"
    /\ r_listen = "none" /\ r_conn = "none" /\ r_conn_id = NoConn
    /\ r_pos = 0 /\ r_need = 0 /\ r_buf = <<>>
    /\ r_name_len = 0 /\ r_file_size = 0 /\ r_target = NoPath
    /\ r_dst = "none" /\ r_bytes_received = 0
    /\ r_status = <<>> /\ r_progress = <<>>
    /\ r_ret = NoPath /\ r_exc = "none"
    /\ dest_exists = FALSE /\ fs = NoFiles /\ fs_before = NoFiles

\* _HEADER_STRUCT.pack(n, s)
CodecPack ==
    /\ codec.pc = "start"
    /\ codec' = [codec EXCEPT !.pc = "packed", !.buf = Pack(codec.n, codec.s)]
    /\ UNCHANGED codec_rest

\* fewer bytes than were packed reach the decoder
CodecCut ==
    /\ codec.pc = "packed"
    /\ \E k \in 0..Len(codec.buf) - 1 :
          codec' = [codec EXCEPT !.pc = "cut", !.buf = SubSeq(codec.buf, 1, k)]
    /\ UNCHANGED codec_rest

\* _HEADER_STRUCT.unpack(buf)
CodecUnpack ==
    /\ codec.pc \in {"packed", "cut"}
    /\ codec' = [codec EXCEPT !.pc = "unpacked", !.out = Unpack(codec.buf)]
    /\ UNCHANGED codec_rest

CodecNext == CodecPack \/ CodecCut \/ CodecUnpack

CodecSpec == CodecInit /\ [][CodecNext]_vars

\* the i-th of w big-endian bytes of v, for v below 2^32
ByteOf(v, w, i) == IF w - i > 3 THEN 0 ELSE (v \div (256 ^ (w - i))) % 256

\* C7: packing (n, s) gives exactly 12 bytes, the 4 big-endian bytes of n
\* then the 8 big-endian bytes of s; unpacking those 12 bytes gives (n, s)
\* back; unpacking fewer than 12 bytes fails and gives no pair.
C7_HeaderExact ==
    /\ codec.pc = "packed" =>
          /\ Len(codec.buf) = 12
          /\ \A i \in 1..4 : codec.buf[i] = ByteOf(codec.n, 4, i)
          /\ \A i \in 1..8 : codec.buf[4 + i] = ByteOf(codec.s, 8, i)
    /\ codec.pc = "unpacked" =>
          IF Len(codec.buf) = 12
          THEN codec.out = <<codec.n, codec.s>>
          ELSE codec.out = StructError

\* C7 witness: a pair whose two numbers need four bytes and differ, unpacked
\* from its 12 bytes
C7_Witness ==
    /\ codec.pc = "unpacked" /\ Len(codec.buf) = 12
    /\ codec.n = 2147483647 /\ codec.s = 16777216
    /\ codec.out = <<codec.n, codec.s>>

\* C8: when send_file or receive_file has returned or raised, no socket and
\* no file that it opened is still open.
C8_Released ==
    /\ SenderDone => s_sock # "open" /\ s_src # "open"
    /\ ReceiverDone => r_listen # "open" /\ r_conn # "open" /\ r_dst # "open"

\* C8 witness: receive_file raised in the payload loop with its three handles
\* closed, after a cancelled send_file closed its two
C8_Witness ==
    /\ r_pc = "r_raised"
    /\ r_listen = "closed" /\ r_conn = "closed" /\ r_dst = "closed"
    /\ s_pc = "s_done" /\ s_sock = "closed" /\ s_src = "closed"

CompletedOutcome ==
    /\ r_ret = r_target
    /\ r_progress # <<>> /\ Last(r_progress) = <<r_file_size, r_file_size>>
    /\ Last(r_status) = Received(r_target)
    /\ r_target \in DOMAIN fs
    /\ Len(fs[r_target]) = r_file_size

\* C9, as claimed, for a file that is not empty and a token not set before
\* the last payload byte was written: a receive_file that has written exactly
\* file_size bytes makes the final progress event and the 'File received'
\* status, returns the path and leaves the file; it ends Cancelled, the file
\* deleted, only when the loop was left with fewer than file_size bytes.
C9_Completion ==
    r_pc = "r_done" /\ r_dst = "closed" /\ r_file_size > 0
    /\ r_stop_at \in {"unset", "complete"} =>
        IF r_bytes_received = r_file_size THEN CompletedOutcome ELSE CancelledOutcome

\* connections made to the port, and those accept has returned
Established ==
    (IF s_sock = "none" THEN 0 ELSE 1)
    + Cardinality({ i \in 1..Len(probes) : probes[i].connected })
Accepted == Established - Len(backlog)

\* C10: one receive_file accepts at most one connection, however many were
\* made to the port; once accept has returned a connection the session is
\* never again in the accept loop and takes nothing more from the queue.
C10_SingleAccept ==
    /\ [](Accepted <= 1 /\ (Accepted = 1 <=> r_conn # "none"))
    /\ [][r_conn # "none" =>
            /\ r_pc' \notin {"r_poll", "r_accept"}
            /\ Len(backlog') >= Len(backlog)
            /\ r_conn_id' = r_conn_id]_vars

\* C10 witness: the session over, one connection served, another never accepted
C10_Witness ==
    /\ ReceiverDone /\ r_conn = "closed"
    /\ Established = 2 /\ Len(backlog) = 1

\* C11: check_connection returns (True, ...) exactly when its connect attempt
\* succeeded; then the probe wrote nothing on its connection and its socket
\* is closed when it returns; when the attempt failed (refused, or timed
\* out) it returns (False, ...) and raises nothing.
C11_Probe ==
    \A i \in 1..Len(probes) :
        /\ probes[i].exc = "none"
        /\ probes[i].ret \in {<<TRUE>>, <<FALSE>>}
        /\ probes[i].ret = <<TRUE>> <=> probes[i].connected
        /\ probes[i].sock # "open"
        /\ probes[i].connected <=> probes[i].sock = "closed"
        /\ Stream(i) = <<>>
        /\ r_conn_id = i => r_pos = 0

\* C11 witness: a probe that connected and returned True; receive_file
\* accepted its connection and found it closed with nothing to read
C11_Witness ==
    /\ probes # <<>>
    /\ probes[1].connected /\ probes[1].ret = <<TRUE>> /\ probes[1].sock = "closed"
    /\ r_conn_id = 1 /\ r_pc = "r_raised" /\ r_pos = 0

(* ------------------------- an arbitrary peer --------------------------- *)

\* receive_file serving a client that is not send_file: any program can
\* connect to the port, write any bytes and close when it likes.  The client
\* takes the place of send_file: s_sock is its socket, wire what it has
\* written, s_view what it still means to write.

\* a file outside the destination directory: "/x"
OutsideFile == << <<120>> >>

\* in the destination directory: "b", the name the clients send, and "c"
SameName == Destination \o << <<98>> >>
OtherName == Destination \o << <<99>> >>

\* the files there may be before the call: none, one outside the
\* destination directory, or two in it, one under the incoming name
RawFiles ==
    { NoFiles,
      OutsideFile :> OldContent,
      (SameName :> OldContent) @@ (OtherName :> OldContent) }

\* a frame as a client may write it: the header, the name, the payload
Frame(name, size, payload) == Pack(Len(name), size) \o name \o payload

\* what the clients of the model mean to write:
\*   "b", file_size 1, and one byte more than that
\*   "../x" and "/x", names that lead out of the destination directory
\*   "", ".." and "a/b", names that open() refuses
\*   a name of one byte that is not UTF-8
\*   "b", file_size 3, more than one recv takes
RawScripts ==
    { Frame(<<98>>, 1, <<7, 8>>),
      Frame(<<46, 46, 47, 120>>, 1, <<7>>),
      Frame(<<47, 120>>, 0, <<>>),
      Frame(<<>>, 1, <<7>>),
      Frame(<<46, 46>>, 0, <<>>),
      Frame(<<97, 47, 98>>, 0, <<>>),
      Frame(<<255>>, 1, <<7>>),
      Frame(<<98>>, 3, <<7, 8, 9>>) }

RawInit ==
    /\ codec = CodecIdle
    /\ AppConstructed
    /\ file_path = SourceDir \o <<CHOOSE n \in Names : TRUE>>
    /\ src_exists = FALSE /\ src_content = <<>> /\ chunk_size = 1
    /\ s_pc = "raw" /\ s_stop = FALSE
    /\ s_view \in RawScripts
    /\ s_file_size = 0 /\ s_filename_bytes = <<>>
    /\ s_chunk_len = 0 /\ s_off = 0 /\ s_bytes_sent = 0
    /\ s_sock = "none" /\ s_src = "none"
    /\ s_status = <<>> /\ s_progress = <<>> /\ s_exc = "none"
    /\ backlog = <<>> /\ wire = <<>> /\ probes = <<>>
    /\ r_pc = "r_init" /\ r_stop = FALSE /\ r_stop_at = "unset"
    /\ r_listen = "none" /\ r_conn = "none" /\ r_conn_id = NoConn
    /\ r_pos = 0 /\ r_need = 0 /\ r_buf = <<>>
    /\ r_name_len = 0 /\ r_file_size = 0 /\ r_target = NoPath
    /\ r_dst = "none" /\ r_bytes_received = 0
    /\ r_status = <<>> /\ r_progress = <<>>
    /\ r_ret = NoPath /\ r_exc = "none"
    /\ dest_exists = TRUE
    /\ fs \in RawFiles
    /\ fs_before = fs

raw_rest == <<input_vars, s_pc, s_stop, s_file_size, s_filename_bytes, s_chunk_len,
              s_off, s_bytes_sent, s_src, s_status, s_progress, s_exc,
              probes, r_vars, r_stop, r_stop_at, fs_vars>>

\* the client connects to the listening port
RawConnect ==
    /\ s_pc = "raw" /\ s_sock = "none"
    /\ r_listen = "open"
    /\ s_sock' = "open"
    /\ backlog' = Append(backlog, SenderConn)
    /\ UNCHANGED <<raw_rest, s_view, wire>>

\* the client writes some of its bytes
RawSend ==
    /\ s_pc = "raw" /\ s_sock = "open"
    /\ \E k \in SendSizes :
          /\ wire' = wire \o SubSeq(s_view, 1, k)
          /\ s_view' = SubSeq(s_view, k + 1, Len(s_view))
    /\ UNCHANGED <<raw_rest, s_sock, backlog>>

\* the client closes its socket, whatever it has written so far
RawClose ==
    /\ s_pc = "raw" /\ s_sock = "open"
    /\ s_sock' = "closed"
    /\ UNCHANGED <<raw_rest, s_view, backlog, wire>>

RawNext ==
    \/ RawConnect \/ RawSend \/ RawClose
    \/ RStart \/ RBind \/ RBindFails \/ RPoll \/ RAccept \/ RAcceptTimeout
    \/ RRecvHeader \/ RRecvName \/ RRecvExactEOF
    \/ RLoop \/ RRecv \/ RRecvEOF \/ RAfter
    \/ RCancel

RawSpec == RawInit /\ [][RawNext]_vars

\* how many of the handles hs are open
OpenCount(hs) == Cardinality({ i \in 1..Len(hs) : hs[i] = "open" })

\* once opened a handle is never opened again: none, then open, then closed
OpenedOnce(h, hNext) == (h # "none" => hNext # "none") /\ (h = "closed" => hNext = "closed")

\* C12, as claimed: at every point each session has at most one socket and
\* at most one file handle open.
C12_Original ==
    /\ OpenCount(<<s_sock>>) <= 1 /\ OpenCount(<<s_src>>) <= 1
    /\ OpenCount(<<r_listen, r_conn>>) <= 1 /\ OpenCount(<<r_dst>>) <= 1

\* C12, amended: send_file has at most one socket and one file handle open;
\* receive_file has at most one file handle and at most two sockets open,
\* the listening socket, which stays open for as long as the accepted
\* connection is, and that one connection.  The handles nest as the with
\* blocks do and none is opened a second time.
C12_ResourceBound ==
    /\ [](/\ OpenCount(<<s_sock>>) <= 1 /\ OpenCount(<<s_src>>) <= 1
          /\ OpenCount(<<r_listen, r_conn>>) <= 2 /\ OpenCount(<<r_dst>>) <= 1
          /\ s_src = "open" => s_sock = "open"
          /\ r_dst = "open" => r_conn = "open"
          /\ r_conn = "open" => r_listen = "open")
    /\ [][/\ OpenedOnce(s_sock, s_sock') /\ OpenedOnce(s_src, s_src')
          /\ OpenedOnce(r_listen, r_listen') /\ OpenedOnce(r_conn, r_conn')
          /\ OpenedOnce(r_dst, r_dst')]_vars

\* C12 witness: every handle of both sessions open at once
C12_Witness ==
    /\ s_sock = "open" /\ s_src = "open"
    /\ r_listen = "open" /\ r_conn = "open" /\ r_dst = "open"

\* the header and the name as the accepted connection carried them
HeaderOnWire == SubSeq(Stream(r_conn_id), 1, HeaderSize)
NameOnWire == SubSeq(Stream(r_conn_id), HeaderSize + 1, HeaderSize + r_name_len)

\* receive_file is in _recv_exact and its connection is at end of file
ExactAtEOF == r_pc \in {"r_header", "r_name"} /\ AtEOF

\* C13: when the peer has closed before the 12 header bytes or the
\* name_length name bytes were all read, receive_file raises ConnectionError
\* and does nothing else; the header it unpacks is always the connection's
\* first 12 bytes and the name it decodes the name_length bytes after them,
\* never fewer; and until the name is complete no file is created, opened,
\* changed or deleted.
C13_IncompleteFrame ==
    /\ [][ExactAtEOF =>
            \/ r_pc' = r_pc /\ r_buf' = r_buf /\ r_target' = r_target
            \/ r_pc' = "r_raised" /\ r_exc' = "ConnectionError"
               /\ r_target' = NoPath /\ r_dst' = "none" /\ r_ret' = NoPath]_vars
    /\ [](r_pc \in {"r_name", "r_loop", "r_recv", "r_after"} =>
            /\ r_pos >= HeaderSize
            /\ <<r_name_len, r_file_size>> = Unpack(HeaderOnWire))
    /\ [](r_target # NoPath =>
            /\ r_pos >= HeaderSize + r_name_len
            /\ Len(NameOnWire) = r_name_len
            /\ r_target = JoinPath(Destination, Utf8Decode(NameOnWire)))
    /\ [][r_target' = NoPath => fs' = fs /\ r_dst' = "none"]_vars

\* C13 witness: the peer closed with a part of a four-byte name read;
\* ConnectionError, and no file but the one that was there before
C13_Witness ==
    /\ r_pc = "r_raised" /\ r_exc = "ConnectionError"
    /\ r_name_len = 4 /\ r_buf # <<>> /\ r_need > 0
    /\ r_target = NoPath /\ r_dst = "none"
    /\ fs = OutsideFile :> OldContent

\* receive_file is in the recv of its payload loop, the peer has closed and
\* nothing is left to read
StreamAtEOF == r_pc = "r_recv" /\ AtEOF

\* no callback of receive_file has announced success
NoSuccessCallback ==
    /\ \A i \in 1..Len(r_status) : r_status[i].text # "File received: "
    /\ r_file_size > 0 => <<r_file_size, r_file_size>> \notin Range(r_progress)

\* C14: a recv of the payload loop is only ever made with fewer than
\* file_size bytes received and the token not seen set; when the peer has
\* closed and that recv returns no byte, receive_file raises ConnectionError,
\* makes no further callback (so no final progress event and no 'File
\* received') and returns no path, and it always gets there.
C14_PrematureClose ==
    /\ [](r_pc = "r_recv" => r_bytes_received < r_file_size /\ NoSuccessCallback)
    /\ [][StreamAtEOF =>
            /\ r_status' = r_status /\ r_progress' = r_progress /\ r_ret' = NoPath
            /\ r_pc' \in {"r_recv", "r_raised"}
            /\ r_pc' = "r_raised" => r_exc' = "ConnectionError"]_vars
    /\ [](r_pc = "r_raised" /\ r_dst = "closed" =>
            /\ r_exc = "ConnectionError" /\ r_ret = NoPath
            /\ r_bytes_received < r_file_size
            /\ NoSuccessCallback)
    /\ [][r_pc = "r_raised" =>
            r_pc' = "r_raised" /\ r_status' = r_status /\ r_progress' = r_progress]_vars
    /\ StreamAtEOF ~> (r_pc = "r_raised")

\* C14 witness: send_file was cancelled and closed with a part of the file
\* sent; receive_file, not cancelled, wrote that part and raised
C14_Witness ==
    /\ r_pc = "r_raised" /\ r_exc = "ConnectionError" /\ r_dst = "closed"
    /\ ~r_stop /\ s_pc = "s_done"
    /\ r_bytes_received > 0 /\ r_bytes_received < r_file_size
    /\ Len(r_progress) > 0

\* where the payload begins on the accepted connection
PayloadStart == HeaderSize + r_name_len

\* C15: while receive_file streams, bytes_received never exceeds file_size;
\* no recv takes more than min(64 KiB, file_size - bytes_received) bytes;
\* what was consumed from the connection is the header, the name and
\* bytes_received payload bytes, and the destination file holds exactly those
\* payload bytes - never a byte past the first file_size, whatever else the
\* peer has written; after the call nothing more is consumed.
C15_PayloadBound ==
    /\ [](r_dst # "none" =>
            /\ r_bytes_received <= r_file_size
            /\ r_pos = PayloadStart + r_bytes_received
            /\ FileOf(r_target) \in DOMAIN fs =>
                  fs[FileOf(r_target)] =
                      SubSeq(Stream(r_conn_id), PayloadStart + 1, r_pos))
    /\ [][r_pc = "r_recv" =>
            /\ r_pos' - r_pos <= RecvChunk
            /\ r_pos' - r_pos <= r_file_size - r_bytes_received]_vars
    /\ [][ReceiverDone => r_pos' = r_pos /\ fs' = fs]_vars

\* C15 witness: the peer wrote one byte more than the file_size of its
\* header; receive_file returned with the file of file_size bytes and left
\* the extra byte unread
C15_Witness ==
    /\ r_pc = "r_done" /\ r_ret # NoPath
    /\ r_file_size = 1
    /\ Len(wire) = PayloadStart + r_file_size + 1
    /\ r_pos = PayloadStart + r_file_size
    /\ fs[FileOf(r_target)] = <<7>>

\* the payload bytes send_file's socket has taken
PayloadWritten == Len(wire) - HeaderSize - Len(s_filename_bytes)

\* the status calls a send_file session can have made
SenderStatusOrder ==
    { <<>>, <<Connecting>>, <<Connecting, Transferring>>,
      <<Connecting, Transferring, SendCancelled>>,
      <<Connecting, Transferring, Completed>> }

\* C16: send_file's status calls are 'connecting', then 'transferring', then
\* one terminal status, in that order; 'transferring' comes only when the
\* header and the name are on the socket; no progress event comes before
\* 'transferring' or after the terminal status; the i-th progress event of
\* the loop reports i chunks and comes only when those bytes are on the
\* socket; a session that returns has made exactly one terminal status, and
\* it was its last callback; a session that raises has made none.
C16_SenderOrder ==
    /\ [](/\ s_status \in SenderStatusOrder
          /\ Len(s_status) < 2 => s_progress = <<>>
          /\ Len(s_status) >= 2 =>
                /\ Len(wire) >= HeaderSize + Len(s_filename_bytes)
                /\ SubSeq(wire, 1, HeaderSize + Len(s_filename_bytes))
                      = Pack(Len(s_filename_bytes), s_file_size) \o s_filename_bytes
          /\ \A i \in 1..Len(s_progress) :
                /\ s_progress[i][1] <= PayloadWritten
                /\ i <= ChunksWritten =>
                      s_progress[i][1] = Min(i * chunk_size, s_file_size)
          /\ s_pc = "s_done" <=> Len(s_status) = 3
          /\ s_pc = "s_raised" => Len(s_status) < 3)
    /\ [][Len(s_status) = 3 =>
            s_status' = s_status /\ s_progress' = s_progress]_vars
    /\ [][Len(s_status') = 3 /\ Len(s_status) < 3 => s_pc' = "s_done"]_vars

\* C16 witness: a session that returned 'completed' after three chunk events
\* and the final one
C16_Witness ==
    /\ s_pc = "s_done"
    /\ s_status = <<Connecting, Transferring, Completed>>
    /\ Len(s_progress) = 4 /\ ChunksWritten = 3

\* C17, as claimed: 'Waiting for sender to connect...' has been emitted only
\* if the destination directory exists and receive_file has bound its
\* socket and listens; a receive_file whose bind failed has not emitted it.
C17_ListeningOrder ==
    /\ Waiting \in Range(r_status) =>
          dest_exists /\ r_pc \notin {"r_init", "r_bind"}
    /\ r_exc = "OSError" => Waiting \notin Range(r_status)

\* receive_file waits in a recv for a peer that has sent nothing more and
\* has not closed; send_file waits in a send for room in the connection
RecvBlocked ==
    /\ r_pc \in {"r_header", "r_name", "r_recv"}
    /\ Available = <<>> /\ ~PeerClosed(r_conn_id)
SendBlocked ==
    /\ s_pc \in {"s_header", "s_name", "s_chunk"}
    /\ PeerAlive /\ InFlight >= BufCap

\* how far send_file with its token set is from its end: the statements
\* still to come, and within a _send_all the bytes still to send
SenderToGo ==
    LET rank == CASE s_pc = "s_init" -> 7 [] s_pc = "s_connect" -> 6
                  [] s_pc = "s_header" -> 5 [] s_pc = "s_name" -> 4
                  [] s_pc = "s_chunk" -> 3 [] s_pc = "s_loop" -> 2
                  [] s_pc = "s_after" -> 1 [] OTHER -> 0
    IN  rank * (HeaderSize + 1) + Len(s_view)

\* C18, as claimed: a token that is set always leads to the end of the call
\* when the session is scheduled fairly.
C18_Original == r_stop ~> ReceiverDone

\* C18, amended: once its token is set no poll of it lets a session go on:
\* send_file completes at most the chunk write its last poll let through,
\* receive_file at most the accept attempt or the chunk read (after an
\* accept, the header and the name are still read before the next poll);
\* and a session whose token is set ends, unless it keeps waiting in a
\* recv for a peer that neither sends nor closes, or in a send for room
\* that the peer never makes.  For send_file this is stated by its steps:
\* with the token set it can always take one unless it waits for room, and
\* each step brings it nearer its end.
C18_BoundedCancel ==
    /\ [][s_stop => ~(s_pc # "s_chunk" /\ s_pc' = "s_chunk")]_vars
    /\ [][r_stop => /\ ~(r_pc # "r_accept" /\ r_pc' = "r_accept")
                    /\ ~(r_pc # "r_recv" /\ r_pc' = "r_recv")]_vars
    /\ r_stop ~> (ReceiverDone \/ RecvBlocked)
    /\ [](s_stop /\ ~SenderDone => SendBlocked \/ ENABLED SenderNext)
    /\ [][s_stop /\ s_vars' # s_vars => SenderToGo' < SenderToGo]_vars

\* C18 witness: both tokens were set with a chunk under way, the sender's
\* during a chunk write and the receiver's during a read; both calls are over
C18_Witness ==
    /\ r_stop_at = "streaming" /\ r_pc = "r_done" /\ r_bytes_received > 0
    /\ s_stop /\ s_pc = "s_done" /\ s_bytes_sent > 0 /\ s_bytes_sent < s_file_size

\* C19, as claimed, for the sessions of a send_file and the receive_file
\* that accepted its connection, and a send_file that read its source to
\* the end with its token not set: when receive_file has returned the
\* stored path, send_file has not ended with 'Transfer cancelled by user.';
\* and when send_file has ended with 'Transfer completed successfully.', a
\* receive_file whose own token is not set has not failed, and when it
\* returns it returns the path.
C19_Agreement ==
    /\ [](s_pc = "s_after" /\ ~s_stop =>
            [](r_conn_id = SenderConn /\ s_pc = "s_done"
               /\ r_pc = "r_done" /\ r_ret # NoPath
                  => Last(s_status) # SendCancelled))
    /\ [](r_conn_id = SenderConn /\ s_pc = "s_done"
          /\ Last(s_status) = Completed /\ ~r_stop
             => /\ r_pc # "r_raised"
                /\ r_pc = "r_done" => r_ret # NoPath)

\* the file that path p names lies in the destination directory
InDestination(p) ==
    /\ FileOf(p) # NoEntry
    /\ Len(FileOf(p)) > Len(Destination)
    /\ SubSeq(FileOf(p), 1, Len(Destination)) = Destination

\* C20, as claimed: whatever name arrives on the connection, the file
\* receive_file opens (creates or truncates), writes and deletes lies in the
\* destination directory, and no file outside it is ever changed.
C20_Containment ==
    /\ r_dst # "none" => InDestination(r_target)
    /\ \A f \in DOMAIN fs : InDestination(f) \/ (f = OutsideFile /\ fs[f] = OldContent)

\* receive_file is over and gave no stored path: it returned None, or a
\* ConnectionError left it
EndedWithoutPath ==
    \/ r_pc = "r_done" /\ r_ret = NoPath
    \/ r_pc = "r_raised" /\ r_exc = "ConnectionError"

\* the files of the destination directory among files
InDir(files) == [f \in { g \in DOMAIN files : InDestination(g) } |-> files[f]]

\* the payload bytes receive_file has taken from the connection
PayloadReceived ==
    SubSeq(Stream(r_conn_id), PayloadStart + 1, PayloadStart + r_bytes_received)

\* C21, as claimed: when receive_file ends without a stored path (None, or
\* ConnectionError), the files of the destination directory are exactly what
\* they were before the call: no partial file, nothing truncated or deleted.
C21_Original == EndedWithoutPath => InDir(fs) = InDir(fs_before)

\* C21, amended: when receive_file ends without a stored path, every file
\* but the target is what it was before the call.  If the session ended
\* before line 199 opened the target, no file has changed at all.  If it was
\* cancelled after the open, the target is absent, whether or not a file
\* of that name existed before.  If a ConnectionError ended the payload loop,
\* the target holds exactly the payload bytes received so far, in place of
\* whatever it held before.
C21_DestinationAfter ==
    EndedWithoutPath =>
        /\ DOMAIN fs \ {FileOf(r_target)} = DOMAIN fs_before \ {FileOf(r_target)}
        /\ \A f \in DOMAIN fs \ {FileOf(r_target)} : fs[f] = fs_before[f]
        /\ r_dst = "none" => fs = fs_before
        /\ r_dst # "none" /\ r_pc = "r_done" => FileOf(r_target) \notin DOMAIN fs
        /\ r_dst # "none" /\ r_pc = "r_raised"
              => /\ FileOf(r_target) \in DOMAIN fs
                 /\ fs[FileOf(r_target)] = PayloadReceived

\* a file of the incoming name existed; the peer closed after part of the
\* payload, and the file now holds that part
C21_Witness ==
    /\ r_pc = "r_raised" /\ r_exc = "ConnectionError" /\ r_dst = "closed"
    /\ FileOf(r_target) \in DOMAIN fs_before
    /\ 0 < r_bytes_received /\ r_bytes_received < r_file_size
    /\ fs[FileOf(r_target)] # fs_before[FileOf(r_target)]

(* --------------------------- FileTransferApp --------------------------- *)

\* The application on its own: the Tk event loop runs one handler at a time
\* (a button's command, the timer's _process_ui_queue); each worker thread
\* runs send_file or receive_file, whose callbacks post to _ui_queue.  What
\* the transfer does on the network is left open here: a call posts any
\* status and progress events, then returns or raises.

\* Event objects created in one run of the model, the one of __init__
\* included: one for every _start_action that reaches line 194
MaxEvents == 3
\* events of callbacks waiting in _ui_queue: a callback posts while there
\* are fewer
MaxQueue == 2

\* the event loop itself, as the poster of an event
UiThread == 0

\* status texts of app.py, and those the callbacks bring that matter to
\* _handle_finish (line 323)
SenderHint == "Select a file and click Start to send."
ReceiverHint == "Choose a destination folder and click Start to listen."
ConnectingText == "Connecting to receiver..."
WaitingText == "Waiting for sender..."
CancelRequested == "Cancellation requested. Waiting for the current operation to stop..."
NothingToCancel == "Nothing to cancel."
ErrorText == "Error: "
ReadySend == "Ready to send another file."
ReadyReceive == "Ready to receive another file."
CallbackTexts == { Transferring.text }

\* line 323: "error" or "cancel" in the lowered status, a sequence of lines
ErrorOrCancel(status) ==
    \E i \in 1..Len(status) :
        status[i] \in {ErrorText, SendCancelled.text, CancelRequested, NothingToCancel}

\* Thread.is_alive(): started, and run() has not ended
IsAlive(w) == workers[w].pc # "dead"

\* lines 106-107, _post: queue.Queue.put
Post(action, arg, from) ==
    ui_queue' = Append(ui_queue, [action |-> action, arg |-> arg, from |-> from])

app_rest == <<file_path, src_exists, src_content, chunk_size, fs_before, codec,
              s_vars, s_stop, net_vars, r_vars, r_stop, fs_vars, r_stop_at>>

\* lines 277-282, 299-304: on_status or on_progress, called by the transfer
WCallback ==
    \E w \in 1..Len(workers) :
        /\ workers[w].pc = "call"
        /\ Len(ui_queue) < MaxQueue
        /\ \/ \E text \in CallbackTexts : Post("status", text, w)
           \/ \E percent \in {100} : Post("progress", percent, w)
        /\ UNCHANGED <<app_rest, mode_var, status_var, progress_var, start_button,
                       cancel_button, worker_thread, stop_event, events, workers, ui_pc>>

\* lines 284-291, 306-312: send_file or receive_file returns
WReturn ==
    \E w \in 1..Len(workers) :
        /\ workers[w].pc = "call"
        /\ workers' = [workers EXCEPT ![w].pc = "finally"]
        /\ UNCHANGED <<app_rest, mode_var, status_var, progress_var, start_button,
                       cancel_button, worker_thread, stop_event, ui_queue, events,
                       ui_pc>>

\* send_file or receive_file raises
WRaise ==
    \E w \in 1..Len(workers) :
        /\ workers[w].pc = "call"
        /\ workers' = [workers EXCEPT ![w].pc = "except"]
        /\ UNCHANGED <<app_rest, mode_var, status_var, progress_var, start_button,
                       cancel_button, worker_thread, stop_event, ui_queue, events,
                       ui_pc>>

\* a mutant of AfterExcept: no finally clause, the finish event posted at
\* the end of the try block only
AfterExceptReturns == "exit"

\* lines 292-294, 313-315: after the except clause, the finally clause
AfterExcept == "finally"

\* lines 292-293, 313-314: the except clause
WExcept ==
    \E w \in 1..Len(workers) :
        /\ workers[w].pc = "except"
        /\ Post("status", ErrorText, w)
        /\ workers' = [workers EXCEPT ![w].pc = AfterExcept]
        /\ UNCHANGED <<app_rest, mode_var, status_var, progress_var, start_button,
                       cancel_button, worker_thread, stop_event, events, ui_pc>>

\* lines 294-295, 315-316: the finally clause
WFinally ==
    \E w \in 1..Len(workers) :
        /\ workers[w].pc = "finally"
        /\ Post("finish", "", w)
        /\ workers' = [workers EXCEPT ![w].pc = "exit", ![w].finishes = @ + 1]
        /\ UNCHANGED <<app_rest, mode_var, status_var, progress_var, start_button,
                       cancel_button, worker_thread, stop_event, events, ui_pc>>

\* the worker function has returned: the thread ends
WExit ==
    \E w \in 1..Len(workers) :
        /\ workers[w].pc = "exit"
        /\ workers' = [workers EXCEPT ![w].pc = "dead"]
        /\ UNCHANGED <<app_rest, mode_var, status_var, progress_var, start_button,
                       cancel_button, worker_thread, stop_event, ui_queue, events,
                       ui_pc>>

\* lines 241-253, _disable_controls
DisableControls ==
    /\ start_button' = "disabled"
    /\ cancel_button' = "normal"

\* lines 255-258, _enable_controls
EnableControls ==
    /\ start_button' = "normal"
    /\ cancel_button' = "disabled"

\* lines 210-217, 224-231: the status, the controls, the thread started with
\* the Event that line 194 made
StartWorker ==
    /\ status_var' = <<IF mode_var = "sender" THEN ConnectingText ELSE WaitingText>>
    /\ DisableControls
    /\ workers' = Append(workers, [target |-> mode_var, stop_event |-> stop_event',
                                   pc |-> "call", finishes |-> 0])
    /\ worker_thread' = Len(workers) + 1

\* lines 184-231, _start_action, the command of the Start button, which Tk
\* runs only while the button is not disabled; port_ok is what _get_port
\* finds, fields_ok what lines 200-208 and 220-222 find
StartAction ==
    /\ ui_pc = "idle"
    /\ start_button = "normal"
    /\ \E port_ok, fields_ok \in BOOLEAN :
          IF worker_thread # None /\ IsAlive(worker_thread) THEN UNCHANGED app_vars
          ELSE IF ~port_ok THEN UNCHANGED app_vars
          ELSE /\ Len(events) < MaxEvents
               /\ events' = Append(events, FALSE)
               /\ stop_event' = Len(events) + 1
               /\ Post("progress", 0, UiThread)
               /\ IF fields_ok
                  THEN /\ StartWorker
                       /\ UNCHANGED <<mode_var, progress_var, ui_pc>>
                  ELSE UNCHANGED <<mode_var, status_var, progress_var, start_button,
                                   cancel_button, worker_thread, workers, ui_pc>>
    /\ UNCHANGED app_rest

\* lines 233-238, _cancel_action, the command of the Cancel button
CancelAction ==
    /\ ui_pc = "idle"
    /\ cancel_button = "normal"
    /\ IF worker_thread # None /\ IsAlive(worker_thread)
       THEN /\ events' = [events EXCEPT ![stop_event] = TRUE]
            /\ status_var' = <<CancelRequested>>
       ELSE /\ status_var' = <<NothingToCancel>>
            /\ UNCHANGED events
    /\ UNCHANGED <<app_rest, mode_var, progress_var, start_button, cancel_button,
                   worker_thread, stop_event, ui_queue, workers, ui_pc>>

\* lines 45-50, 128-143: a radio button and _update_widget_state
SelectMode ==
    /\ ui_pc = "idle"
    /\ \E mode \in {"sender", "receiver"} :
          /\ mode_var' = mode
          /\ status_var' = <<IF mode = "sender" THEN SenderHint ELSE ReceiverHint>>
    /\ UNCHANGED <<app_rest, progress_var, start_button, cancel_button,
                   worker_thread, stop_event, ui_queue, events, workers, ui_pc>>

\* line 109: the timer runs _process_ui_queue
ProcessBegin ==
    /\ ui_pc = "idle"
    /\ ui_pc' = "drain"
    /\ UNCHANGED <<app_rest, mode_var, status_var, progress_var, start_button,
                   cancel_button, worker_thread, stop_event, ui_queue, events,
                   workers>>

\* lines 111-112: get_nowait takes the oldest event
Taken(action) ==
    /\ ui_pc = "drain"
    /\ ui_queue # <<>>
    /\ Head(ui_queue).action = action
    /\ ui_queue' = Tail(ui_queue)

\* lines 116, 119-120: _handle_status
HandleStatus ==
    /\ Taken("status")
    /\ status_var' = <<Head(ui_queue).arg>>
    /\ UNCHANGED <<app_rest, mode_var, progress_var, start_button, cancel_button,
                   worker_thread, stop_event, events, workers, ui_pc>>

\* lines 116, 122-123: _handle_progress
HandleProgress ==
    /\ Taken("progress")
    /\ progress_var' = Head(ui_queue).arg
    /\ UNCHANGED <<app_rest, mode_var, status_var, start_button, cancel_button,
                   worker_thread, stop_event, events, workers, ui_pc>>

\* lines 116, 318-330: _handle_finish
HandleFinish ==
    /\ Taken("finish")
    /\ worker_thread' = None
    /\ EnableControls
    /\ status_var' = IF ErrorOrCancel(status_var) THEN status_var
                     ELSE Append(status_var, IF mode_var = "sender" THEN ReadySend
                                             ELSE ReadyReceive)
    /\ UNCHANGED <<app_rest, mode_var, progress_var, stop_event, events, workers, ui_pc>>

\* lines 113-114, 117: the queue is empty, the timer is set again
ProcessEnd ==
    /\ ui_pc = "drain"
    /\ ui_queue = <<>>
    /\ ui_pc' = "idle"
    /\ UNCHANGED <<app_rest, mode_var, status_var, progress_var, start_button,
                   cancel_button, worker_thread, stop_event, ui_queue, events,
                   workers>>

\* the application constructed, no transfer of the network model under way
AppInit ==
    /\ AppConstructed
    /\ codec = CodecIdle
    /\ file_path = SourceDir \o <<CHOOSE n \in Names : TRUE>>
    /\ src_exists = FALSE /\ src_content = <<>> /\ chunk_size = 1
    /\ s_pc = "s_init" /\ s_stop = FALSE
    /\ s_file_size = 0 /\ s_filename_bytes = <<>> /\ s_view = <<>>
    /\ s_chunk_len = 0 /\ s_off = 0 /\ s_bytes_sent = 0
    /\ s_sock = "none" /\ s_src = "none"
    /\ s_status = <<>> /\ s_progress = <<>> /\ s_exc = "none"
    /\ backlog = <<>> /\ wire = <<>> /\ probes = <<>>
    /\ r_pc = "r_init" /\ r_stop = FALSE /\ r_stop_at = "unset"
    /\ r_listen = "none" /\ r_conn = "none" /\ r_conn_id = NoConn
    /\ r_pos = 0 /\ r_need = 0 /\ r_buf = <<>>
    /\ r_name_len = 0 /\ r_file_size = 0 /\ r_target = NoPath
    /\ r_dst = "none" /\ r_bytes_received = 0
    /\ r_status = <<>> /\ r_progress = <<>>
    /\ r_ret = NoPath /\ r_exc = "none"
    /\ dest_exists = FALSE /\ fs = NoFiles /\ fs_before = NoFiles

AppNext ==
    \/ StartAction \/ CancelAction \/ SelectMode
    \/ ProcessBegin \/ HandleStatus \/ HandleProgress \/ HandleFinish \/ ProcessEnd
    \/ WCallback \/ WReturn \/ WRaise \/ WExcept \/ WFinally \/ WExit

AppSpec == AppInit /\ [][AppNext]_vars

Workers == 1..Len(workers)
\* the worker threads for which Thread.is_alive() holds
AliveWorkers == { w \in Workers : IsAlive(w) }
\* a worker that has not yet posted its finish event
InSession(w) == workers[w].pc \in {"call", "except", "finally"}
\* a worker that has left its worker function, or has only the return left
Left(w) == workers[w].pc \in {"exit", "dead"}
\* the events in _ui_queue that worker w posted
QueuedFrom(w) == { i \in 1..Len(ui_queue) : ui_queue[i].from = w }

\* every worker that has left posted one finish event, no worker more than
\* one, and none of its events in the queue is behind its finish event
OneFinishLast ==
    \A w \in Workers :
        /\ workers[w].finishes <= 1
        /\ Left(w) => workers[w].finishes = 1
        /\ \A i, j \in QueuedFrom(w) : ui_queue[i].action = "finish" => j <= i

\* while the Start button is enabled no worker is in its session and no
\* event of a worker waits in the queue
DeliveredBeforeEnabled ==
    start_button = "normal" =>
        \A w \in Workers : Left(w) /\ QueuedFrom(w) = {}

\* an Event that is set was handed to a worker
SetEventsHaveWorker ==
    \A e \in 1..Len(events) : events[e] => \E w \in Workers : workers[w].stop_event = e

\* C22, as claimed: at most one transfer worker thread is alive at any time;
\* every worker posts exactly one finish event on every exit path, as its
\* last event, so that all events of the session are delivered before the
\* controls are enabled again; Cancel sets only a stop event that was handed
\* to a worker.
C22_Original ==
    /\ Cardinality(AliveWorkers) <= 1
    /\ OneFinishLast
    /\ DeliveredBeforeEnabled
    /\ SetEventsHaveWorker

\* a step that puts an event of a worker into _ui_queue: the worker is in
\* its session, and a finish event is put by the finally clause alone
PostsInSession ==
    Len(ui_queue') > Len(ui_queue) /\ Last(ui_queue').from # UiThread =>
        LET w == Last(ui_queue').from
        IN  /\ InSession(w)
            /\ Last(ui_queue').action = "finish"
                  <=> workers[w].pc = "finally" /\ workers'[w].pc = "exit"

\* a step that sets an Event: it is the one _stop_event names, the one that
\* was handed to the thread _worker_thread names, which is alive and is the
\* thread started last
CancelSetsCurrent ==
    (\E e \in 1..Len(events) : ~events[e] /\ events'[e]) =>
        /\ worker_thread # None
        /\ worker_thread = Len(workers)
        /\ IsAlive(worker_thread)
        /\ workers[worker_thread].stop_event = stop_event
        /\ events' = [events EXCEPT ![stop_event] = TRUE]

\* C22, amended: at most one worker is in its session (has not yet posted
\* its finish event) at any time, it is the thread _worker_thread names, and
\* every other thread that is still alive has only its return left; every
\* worker posts exactly one finish event on every exit path, as its last
\* event, so that all events of the session are delivered before the
\* controls are enabled again; Cancel sets exactly the stop event handed to
\* the worker started last, and only while that thread is alive.
C22_Lifecycle ==
    /\ [](/\ Cardinality({ w \in Workers : InSession(w) }) <= 1
          /\ \A w \in Workers : InSession(w) => worker_thread = w
          /\ OneFinishLast
          /\ DeliveredBeforeEnabled
          /\ SetEventsHaveWorker)
    /\ [][PostsInSession]_vars
    /\ [][CancelSetsCurrent]_vars

\* the finish event of one worker has been handled and the next worker
\* started before the first thread ended; Cancel has set the Event of the
\* second
C22_Witness ==
    \E v, w \in Workers :
        /\ v # w
        /\ workers[v].pc = "exit"
        /\ workers[w].pc = "call"
        /\ worker_thread = w
        /\ events[workers[w].stop_event]
        /\ ~events[workers[v].stop_event]

====
